---- MODULE Spec2Model ----
(***************************************************************************)
(* Model of FixtureDifficultyService (services/fixtureDifficultyService):  *)
(* the league-wide team-strength computation with its promise-based        *)
(* de-duplication, the memoized fixture list and bootstrap data, and       *)
(* getTeamUpcomingFixtures / calculateFixtureDifficulty (Spec, SpecTimed);  *)
(* its scoring functions applied to drawn arguments (SpecScoring); and the *)
(* batched loading of FixtureDifficultyPage (SpecPage).                    *)
(*                                                                         *)
(* JavaScript runs every continuation to completion: code between two      *)
(* awaits of a network fetch is one atomic step.  When the promise of      *)
(* _calculateTeamStrengths settles, the reactions registered on it (the    *)
(* initiating call first, then the calls that joined) run in the same      *)
(* microtask checkpoint, before any other fetch completion or timer, so    *)
(* the settlement and those continuations form one action.                 *)
(*                                                                         *)
(* Per-90 rates, bonuses and form are integers in hundredths.              *)
(***************************************************************************)
EXTENDS Integers, Sequences, FiniteSets, TLC

\* ------------------------------------------------------------- bounds
\* Number of calls made to the service in one behaviour.
MaxCalls == 2
\* Largest `count` passed to getTeamUpcomingFixtures.
MaxCount == 3
\* Largest age, in clock ticks, the stored strengths are followed to (SpecTimed).
MaxAge == 2
\* Age beyond which the specification's cache entry counts as Stale.
Ttl == 1
\* scaleTo100 and scaleTo100Inverted are applied to values and ranges in 0..MaxValue.
MaxValue == 3
\* The composites are applied to the multiples of 100 / ScaleSteps in 0..100.
ScaleSteps == 4

\* Number of teams the page loads fixtures for.
NumTeams == 4
\* Number of loadAllTeamFixtures runs followed, and of changes of maxFixtures.
MaxRuns == 2
MaxChanges == 2

Calls == 1..MaxCalls

\* useState(5), and the other value the selector is set to.
InitialMaxFixtures == 5
OtherMaxFixtures == 10
\* const batchSize = 3
batchSize == 3

\* ------------------------------------------------------------- values
\* `calculatingTeamStrengths = null`; a pending promise is named by the call
\* that created it.
NullPromise == 0
\* JavaScript `undefined` for a numeric field of an upstream record.
Absent == -100000
\* JavaScript `null` for Fixture.event (a fixture without a gameweek).
NullEvent == -1

\* A nullable reference: <<>> is null, <<x>> is the value x.
Null == <<>>
Some(x) == <<x>>
IsNull(o) == o = <<>>
Get(o) == o[1]

\* JavaScript truthiness of a number-or-undefined (`if (team.team_id)`).
Truthy(v) == v # Absent /\ v # 0
\* `v || 0`
OrZero(v) == IF Truthy(v) THEN v ELSE 0
\* Variant of ToNumber that orders null after every gameweek.
ToNumberLast(v) == IF v = NullEvent THEN 1000 ELSE v
\* ToNumber applied by `a.event - b.event`: null becomes 0.
ToNumber(v) == IF v = NullEvent THEN 0 ELSE v

\* ------------------------------------------------------------- upstream data
\* One record of /api/understat/team-stats.
Stat(id, name, xg, xga, gf, ga, hxg, hxga, axg, axga, hgf, hga, agf, aga, hab, hdb, form) ==
  [team_id |-> id, team_name |-> name,
   xg_per90 |-> xg, xga_per90 |-> xga, gf_per90 |-> gf, ga_per90 |-> ga,
   home_xg_per90 |-> hxg, home_xga_per90 |-> hxga,
   away_xg_per90 |-> axg, away_xga_per90 |-> axga,
   home_gf_per90 |-> hgf, home_ga_per90 |-> hga,
   away_gf_per90 |-> agf, away_ga_per90 |-> aga,
   home_attack_bonus |-> hab, home_defense_bonus |-> hdb, form_factor |-> form]

\* Every team carries its FPL id.
UnderstatById ==
  << Stat(1, "Arsenal",   180, 80, 200,  90, 200,  70, 160,  90, 220,  80, 180, 100,  20,  10,  50),
     Stat(2, "Leeds United", 120, 160, 110, 170, 140, 150, 100, 170, 130, 160,  90, 180,  20,  10, -40),
     Stat(3, "Tottenham", 150, 120, 160, 100, 170, 110, 130, 130, 180,  90, 140, 110,  20,  10, Absent) >>
\* No ids: Arsenal and Leeds resolve through the name table, nobody else does.
UnderstatByName ==
  << Stat(Absent, "Leeds United", 110, 150, 100, 160, 130, 140,  90, 160, 120, 150,  80, 170,  20,  10, -30),
     Stat(0, "Arsenal",   170, 90, 190, 100, 190,  80, 150, 100, 210,  90, 170, 110,  20,  10,  40),
     Stat(Absent, "Hotspur", 150, 120, 160, 100, 170, 110, 130, 130, 180,  90, 140, 110,  20,  10,  0) >>
\* Team 1 is found by id while another record carries its name; Leeds is found
\* by name only; nobody is found for Spurs.
UnderstatMixed ==
  << Stat(1, "Woolwich",  180, 80, 200,  90, 200,  70, 160,  90, 220,  80, 180, 100,  20,  10,  50),
     Stat(Absent, "Arsenal", 100, 100, 100, 100, 100, 100, 100, 100, 100, 100, 100, 100, 0, 0, 0),
     Stat(Absent, "Leeds United", 110, 150, 100, 160, 130, 140,  90, 160, 120, 150,  80, 170,  20,  10, -30),
     Stat(Absent, "Hotspur", 150, 120, 160, 100, 170, 110, 130, 130, 180,  90, 140, 110,  20,  10,  0) >>
\* A non-empty answer in which no directory team can be found.
UnderstatUnmatched ==
  << Stat(Absent, "Unknown FC", 100, 100, 100, 100, 100, 100, 100, 100, 100, 100, 100, 100, 0, 0, 0) >>
UnderstatEmpty == << >>
\* The answers the concurrent model draws from.
UnderstatResponses == {UnderstatById, UnderstatUnmatched, UnderstatEmpty}

\* `teams` of /api/bootstrap-static/.
Team(id, name) == [id |-> id, name |-> name]
BootstrapFull == << Team(1, "Arsenal"), Team(2, "Leeds"), Team(3, "Spurs") >>
BootstrapShort == << Team(1, "Arsenal"), Team(2, "Leeds") >>
BootstrapResponses == {BootstrapFull, BootstrapShort}

\* One record of /api/fixtures/.
Fixture(id, event, h, a, finished) ==
  [id |-> id, event |-> event, team_h |-> h, team_a |-> a, finished |-> finished]
FixturesSeason ==
  << Fixture(1, 3, 1, 2, FALSE),
     Fixture(2, 1, 1, 3, TRUE),
     Fixture(3, 2, 3, 1, FALSE),
     Fixture(4, NullEvent, 2, 1, FALSE),
     Fixture(5, 2, 2, 3, FALSE),
     Fixture(6, 4, 3, 2, FALSE),
     Fixture(7, 2, 1, 2, FALSE) >>
FixturesNone == << >>
FixtureResponses == {FixturesSeason, FixturesNone}

\* The (teamId, count) pairs getTeamUpcomingFixtures is called with.
Requests == {<<1, MaxCount>>, <<2, MaxCount - 1>>}

\* ------------------------------------------------------------- _calculateTeamStrengths
\* fplToUnderstatMap: FPL team name -> Understat team name.
fplToUnderstatMap ==
  [n \in {"Arsenal", "Aston Villa", "Bournemouth", "Brentford", "Brighton", "Burnley",
          "Chelsea", "Crystal Palace", "Everton", "Fulham", "Ipswich", "Leeds",
          "Leicester", "Liverpool", "Man City", "Man Utd", "Newcastle",
          "Nott'm Forest", "Southampton", "Spurs", "Sunderland", "West Ham", "Wolves"} |->
     CASE n = "Leeds" -> "Leeds United"
       [] n = "Man City" -> "Manchester City"
       [] n = "Man Utd" -> "Manchester United"
       [] n = "Newcastle" -> "Newcastle United"
       [] n = "Nott'm Forest" -> "Nottingham Forest"
       [] n = "Spurs" -> "Tottenham"
       [] n = "Wolves" -> "Wolverhampton Wanderers"
       [] OTHER -> n]

\* Largest element of a set of naturals, 0 when it is empty.
MaxOf(S) == IF S = {} THEN 0 ELSE CHOOSE m \in S : \A x \in S : x <= m

\* understatMapById.get(id): Map.set keeps the last record stored under a key;
\* 0 stands for `undefined`.
understatMapById(data, id) ==
  MaxOf({i \in 1..Len(data) : Truthy(data[i].team_id) /\ data[i].team_id = id})
\* understatMapByName.get(name)
understatMapByName(data, name) ==
  MaxOf({i \in 1..Len(data) : data[i].team_name = name})

\* Variant of understatTeam that looks the mapped name up first.
understatTeamNameFirst(data, team) ==
  IF team.name \in DOMAIN fplToUnderstatMap
       /\ understatMapByName(data, fplToUnderstatMap[team.name]) # 0
    THEN understatMapByName(data, fplToUnderstatMap[team.name])
    ELSE understatMapById(data, team.id)

\* The record of `data` a directory team resolves to (its index, 0 for none):
\* by id first, by mapped name when the id lookup finds nothing.
understatTeam(data, team) ==
  IF understatMapById(data, team.id) # 0
    THEN understatMapById(data, team.id)
    ELSE IF team.name \in DOMAIN fplToUnderstatMap
           THEN understatMapByName(data, fplToUnderstatMap[team.name])
           ELSE 0

\* The TeamStrength object literal.
TeamStrengthOf(team, u) ==
  [teamId |-> team.id, teamName |-> team.name,
   xGPer90 |-> OrZero(u.xg_per90), xGAPer90 |-> OrZero(u.xga_per90),
   gfPer90 |-> OrZero(u.gf_per90), gaPer90 |-> OrZero(u.ga_per90),
   xGPer90Home |-> OrZero(u.home_xg_per90), xGAPer90Home |-> OrZero(u.home_xga_per90),
   xGPer90Away |-> OrZero(u.away_xg_per90), xGAPer90Away |-> OrZero(u.away_xga_per90),
   gfPer90Home |-> OrZero(u.home_gf_per90), gaPer90Home |-> OrZero(u.home_ga_per90),
   gfPer90Away |-> OrZero(u.away_gf_per90), gaPer90Away |-> OrZero(u.away_ga_per90),
   homeAttackBonus |-> OrZero(u.home_attack_bonus),
   homeDefenseBonus |-> OrZero(u.home_defense_bonus),
   formFactor |-> OrZero(u.form_factor)]

\* teams.forEach(...): this.teamStrengths.set(team.id, teamStrength) for every
\* directory team that resolves; `ts` is the content of the Map before the loop,
\* the result its content after it (the last directory entry of an id wins).
SetStrengths(ts, data, teams) ==
  LET resolved == {i \in 1..Len(teams) : understatTeam(data, teams[i]) # 0}
      ids == {teams[i].id : i \in resolved}
      last(id) == MaxOf({i \in resolved : teams[i].id = id})
  IN [id \in (DOMAIN ts) \cup ids |->
        IF id \in ids
          THEN TeamStrengthOf(teams[last(id)], data[understatTeam(data, teams[last(id)])])
          ELSE ts[id]]

\* ------------------------------------------------------------- getTeamUpcomingFixtures
\* Variant of FilterTeam that forgets `!f.finished`.
RECURSIVE FilterTeamFinishedToo(_, _)
FilterTeamFinishedToo(fs, teamId) ==
  IF fs = << >> THEN << >>
  ELSE LET f == Head(fs)
           rest == FilterTeamFinishedToo(Tail(fs), teamId)
       IN IF f.team_h = teamId \/ f.team_a = teamId THEN <<f>> \o rest ELSE rest

\* allFixtures.filter(f => !f.finished && (f.team_h === teamId || f.team_a === teamId))
RECURSIVE FilterTeam(_, _)
FilterTeam(fs, teamId) ==
  IF fs = << >> THEN << >>
  ELSE LET f == Head(fs)
           rest == FilterTeam(Tail(fs), teamId)
       IN IF ~f.finished /\ (f.team_h = teamId \/ f.team_a = teamId)
            THEN <<f>> \o rest ELSE rest

\* Insert f after every element that does not compare greater (stable).
RECURSIVE InsertByEvent(_, _)
InsertByEvent(sorted, f) ==
  IF sorted = << >> THEN <<f>>
  ELSE IF ToNumber(Head(sorted).event) - ToNumber(f.event) > 0
         THEN <<f>> \o sorted
         ELSE <<Head(sorted)>> \o InsertByEvent(Tail(sorted), f)

\* Variant of SortByEvent that leaves the list in the order of the answer.
SortByEventNone(fs) == fs

\* .sort((a, b) => a.event - b.event): Array.prototype.sort is stable.
RECURSIVE SortByEvent(_)
SortByEvent(fs) ==
  IF fs = << >> THEN << >>
  ELSE InsertByEvent(SortByEvent(SubSeq(fs, 1, Len(fs) - 1)), fs[Len(fs)])

\* .slice(0, count) for count >= 0
Slice(fs, count) == SubSeq(fs, 1, IF count < Len(fs) THEN count ELSE Len(fs))

\* .map(f => ({gameweek, opponentTeamId, isHome}))
UpcomingOf(f, teamId) ==
  [gameweek |-> f.event,
   opponentTeamId |-> IF f.team_h = teamId THEN f.team_a ELSE f.team_h,
   isHome |-> f.team_h = teamId]

\* Variant of TeamFixtures without .slice(0, count).
TeamFixturesUncut(allFixtures, teamId, count) ==
  LET picked == SortByEvent(FilterTeam(allFixtures, teamId))
  IN [i \in 1..Len(picked) |-> UpcomingOf(picked[i], teamId)]

\* The teamFixtures pipeline.
TeamFixtures(allFixtures, teamId, count) ==
  LET picked == Slice(SortByEvent(FilterTeam(allFixtures, teamId)), count)
  IN [i \in 1..Len(picked) |-> UpcomingOf(picked[i], teamId)]

\* ------------------------------------------------------------- calculateFixtureDifficulty
\* teams.find(t => t.id === id): index of the first match, 0 for undefined.
FindTeam(teams, id) ==
  IF \E i \in 1..Len(teams) : teams[i].id = id
    THEN CHOOSE i \in 1..Len(teams) :
           teams[i].id = id /\ \A j \in 1..(i - 1) : teams[j].id # id
    ELSE 0

\* ------------------------------------------------------------- numbers
\* A JavaScript number is modelled by the exact rational it stands for, a pair
\* <<numerator, denominator>> in lowest terms with a positive denominator (the
\* rounding of IEEE doubles is not followed).
RECURSIVE GCD(_, _)
GCD(a, b) == IF b = 0 THEN a ELSE GCD(b, a % b)
Abs(n) == IF n < 0 THEN -n ELSE n
Q(n, d) ==
  LET g == GCD(Abs(n), Abs(d))
      s == IF d < 0 THEN -1 ELSE 1
  IN <<(s * n) \div g, (s * d) \div g>>
QAdd(a, b) == Q(a[1] * b[2] + b[1] * a[2], a[2] * b[2])
QSub(a, b) == Q(a[1] * b[2] - b[1] * a[2], a[2] * b[2])
QMul(a, b) == Q(a[1] * b[1], a[2] * b[2])
QDiv(a, b) == Q(a[1] * b[2], a[2] * b[1])
QNeg(a) == <<-a[1], a[2]>>
\* Infinity and -Infinity
PosInf == <<1, 0>>
NegInf == <<-1, 0>>
QLeq(a, b) ==
  IF a[2] # 0 /\ b[2] # 0 THEN a[1] * b[2] <= b[1] * a[2]
  ELSE a = b \/ a = NegInf \/ b = PosInf
QLt(a, b) == a # b /\ QLeq(a, b)
\* Math.min(...values), Math.max(...values): Infinity and -Infinity when there
\* are no values
QMinOf(S) == IF S = {} THEN PosInf ELSE CHOOSE m \in S : \A x \in S : QLeq(m, x)
QMaxOf(S) == IF S = {} THEN NegInf ELSE CHOOSE m \in S : \A x \in S : QLeq(x, m)
\* Math.max(lo, Math.min(hi, x))
QClamp(lo, hi, x) == IF QLt(x, lo) THEN lo ELSE IF QLt(hi, x) THEN hi ELSE x
\* The number a field holding hundredths stands for.
Num(x) == Q(x, 100)

\* ------------------------------------------------------------- scaling
\* Variant of scaleTo100 that answers 0 for a range of one value.
scaleTo100DegenerateZero(value, min, max) ==
  IF max = min THEN Q(0, 1)
  ELSE QMul(QDiv(QSub(value, min), QSub(max, min)), Q(100, 1))

\* Variant of scaleTo100 that measures from the upper end of the range.
scaleTo100FromMax(value, min, max) ==
  IF max = min THEN Q(50, 1)
  ELSE QMul(QDiv(QSub(max, value), QSub(max, min)), Q(100, 1))

\* scaleTo100(value, min, max)
scaleTo100(value, min, max) ==
  IF max = min THEN Q(50, 1)
  ELSE QMul(QDiv(QSub(value, min), QSub(max, min)), Q(100, 1))

\* Variant of scaleTo100Inverted that does not invert.
scaleTo100InvertedNot(value, min, max) ==
  IF max = min THEN Q(50, 1)
  ELSE QMul(QDiv(QSub(value, min), QSub(max, min)), Q(100, 1))

\* scaleTo100Inverted(value, min, max)
scaleTo100Inverted(value, min, max) ==
  IF max = min THEN Q(50, 1)
  ELSE QMul(QDiv(QSub(max, value), QSub(max, min)), Q(100, 1))

\* Variant of scaleToDifficulty whose boundary values belong to the upper bucket.
scaleToDifficultyStrict(rating) ==
  IF QLt(rating, Q(20, 1)) THEN 1
  ELSE IF QLt(rating, Q(40, 1)) THEN 2
  ELSE IF QLt(rating, Q(60, 1)) THEN 3
  ELSE IF QLt(rating, Q(80, 1)) THEN 4
  ELSE 5

\* scaleToDifficulty(rating)
scaleToDifficulty(rating) ==
  IF QLeq(rating, Q(20, 1)) THEN 1
  ELSE IF QLeq(rating, Q(40, 1)) THEN 2
  ELSE IF QLeq(rating, Q(60, 1)) THEN 3
  ELSE IF QLeq(rating, Q(80, 1)) THEN 4
  ELSE 5

\* ------------------------------------------------------------- the scoring loop
\* const ALPHA = 0.7, const BETA = 0.7
ALPHA == Q(7, 10)
BETA == Q(7, 10)

\* (w * x) + ((1 - w) * g) for two fields of a TeamStrength
Combined(w, x, g) == QAdd(QMul(w, Num(x)), QMul(QSub(Q(1, 1), w), Num(g)))
homeAttack(strength) == Combined(ALPHA, strength.xGPer90Home, strength.gfPer90Home)
awayAttack(strength) == Combined(ALPHA, strength.xGPer90Away, strength.gfPer90Away)
homeDefense(strength) == Combined(BETA, strength.xGAPer90Home, strength.gaPer90Home)
awayDefense(strength) == Combined(BETA, strength.xGAPer90Away, strength.gaPer90Away)

\* Variant of RatingRanges that takes Math.max for each lower and Math.min for
\* each upper bound.
RatingRangesSwapped(ts) ==
  LET all(F(_)) == {F(ts[id]) : id \in DOMAIN ts}
      form(strength) == Num(strength.formFactor)
  IN [minHomeAttack |-> QMaxOf(all(homeAttack)), maxHomeAttack |-> QMinOf(all(homeAttack)),
      minAwayAttack |-> QMaxOf(all(awayAttack)), maxAwayAttack |-> QMinOf(all(awayAttack)),
      minHomeDefense |-> QMaxOf(all(homeDefense)), maxHomeDefense |-> QMinOf(all(homeDefense)),
      minAwayDefense |-> QMaxOf(all(awayDefense)), maxAwayDefense |-> QMinOf(all(awayDefense)),
      minForm |-> QMaxOf(all(form)), maxForm |-> QMinOf(all(form))]

\* teamStrengths.forEach(...) and the Math.min / Math.max that follow it.
RatingRanges(ts) ==
  LET all(F(_)) == {F(ts[id]) : id \in DOMAIN ts}
      form(strength) == Num(strength.formFactor)
  IN [minHomeAttack |-> QMinOf(all(homeAttack)), maxHomeAttack |-> QMaxOf(all(homeAttack)),
      minAwayAttack |-> QMinOf(all(awayAttack)), maxAwayAttack |-> QMaxOf(all(awayAttack)),
      minHomeDefense |-> QMinOf(all(homeDefense)), maxHomeDefense |-> QMaxOf(all(homeDefense)),
      minAwayDefense |-> QMinOf(all(awayDefense)), maxAwayDefense |-> QMaxOf(all(awayDefense)),
      minForm |-> QMinOf(all(form)), maxForm |-> QMaxOf(all(form))]

\* opponentXG, opponentXGA, opponentGF, opponentGA: the opponent's splits at the
\* venue it plays at.
VenueSplits(isHome, s) ==
  [opponentXG |-> IF isHome THEN s.xGPer90Away ELSE s.xGPer90Home,
   opponentXGA |-> IF isHome THEN s.xGAPer90Away ELSE s.xGAPer90Home,
   opponentGF |-> IF isHome THEN s.gfPer90Away ELSE s.gfPer90Home,
   opponentGA |-> IF isHome THEN s.gaPer90Away ELSE s.gaPer90Home]

\* Variant of VenueBounds that takes the bounds of the team's own venue.
VenueBoundsOwn(isHome, r) ==
  [minAttack |-> IF isHome THEN r.minHomeAttack ELSE r.minAwayAttack,
   maxAttack |-> IF isHome THEN r.maxHomeAttack ELSE r.maxAwayAttack,
   minDefense |-> IF isHome THEN r.minHomeDefense ELSE r.minAwayDefense,
   maxDefense |-> IF isHome THEN r.maxHomeDefense ELSE r.maxAwayDefense]

\* minAttack, maxAttack, minDefense, maxDefense
VenueBounds(isHome, r) ==
  [minAttack |-> IF isHome THEN r.minAwayAttack ELSE r.minHomeAttack,
   maxAttack |-> IF isHome THEN r.maxAwayAttack ELSE r.maxHomeAttack,
   minDefense |-> IF isHome THEN r.minAwayDefense ELSE r.minHomeDefense,
   maxDefense |-> IF isHome THEN r.maxAwayDefense ELSE r.maxHomeDefense]

\* Variant of homeAwayBonus that does not negate the attack bonus.
homeAwayBonusUnsigned(isHome, s) ==
  IF isHome THEN Num(s.homeDefenseBonus) ELSE Num(s.homeAttackBonus)

\* homeAwayBonus
homeAwayBonus(isHome, s) ==
  IF isHome THEN Num(s.homeDefenseBonus) ELSE QNeg(Num(s.homeAttackBonus))

\* Variant of homeAwayFactorScaled without the clamp.
homeAwayFactorUnclamped(bonus) == QAdd(Q(50, 1), QMul(bonus, Q(20, 1)))

\* Math.max(0, Math.min(100, 50 + (homeAwayBonus * 20)))
homeAwayFactorScaled(bonus) ==
  QClamp(Q(0, 1), Q(100, 1), QAdd(Q(50, 1), QMul(bonus, Q(20, 1))))

\* Variant of attackDifficultyRaw with the weights 0.45, 0.45, 0.05, 0.05.
attackDifficultyRawEven(defenseRatingScaled, attackRatingScaled, homeAwayFactor, formFactorScaled) ==
  QAdd(QAdd(QMul(defenseRatingScaled, Q(45, 100)), QMul(attackRatingScaled, Q(45, 100))),
       QAdd(QMul(homeAwayFactor, Q(5, 100)), QMul(formFactorScaled, Q(5, 100))))

\* attackDifficultyRaw
attackDifficultyRaw(defenseRatingScaled, attackRatingScaled, homeAwayFactor, formFactorScaled) ==
  QAdd(QAdd(QMul(defenseRatingScaled, Q(70, 100)), QMul(attackRatingScaled, Q(20, 100))),
       QAdd(QMul(homeAwayFactor, Q(5, 100)), QMul(formFactorScaled, Q(5, 100))))

\* Variant of defenseDifficultyRaw that leaves the form factor out of the sum.
defenseDifficultyRawNoForm(defenseRatingScaled, attackRatingScaled, homeAwayFactor, formFactorScaled) ==
  QAdd(QAdd(QMul(attackRatingScaled, Q(70, 100)), QMul(defenseRatingScaled, Q(20, 100))),
       QMul(homeAwayFactor, Q(5, 100)))

\* defenseDifficultyRaw
defenseDifficultyRaw(defenseRatingScaled, attackRatingScaled, homeAwayFactor, formFactorScaled) ==
  QAdd(QAdd(QMul(attackRatingScaled, Q(70, 100)), QMul(defenseRatingScaled, Q(20, 100))),
       QAdd(QMul(homeAwayFactor, Q(5, 100)), QMul(formFactorScaled, Q(5, 100))))

\* One iteration of the loop for a fixture whose opponent has the strength entry
\* opponentStrength: the values of its local constants; r is RatingRanges of the map.
ScoreFixture(fixture, opponentStrength, r) ==
  LET v == VenueSplits(fixture.isHome, opponentStrength)
      b == VenueBounds(fixture.isHome, r)
      opponentAttackRating == Combined(ALPHA, v.opponentXG, v.opponentGF)
      opponentDefenseRating == Combined(BETA, v.opponentXGA, v.opponentGA)
      attackRatingScaled == scaleTo100(opponentAttackRating, b.minAttack, b.maxAttack)
      defenseRatingScaled == scaleTo100Inverted(opponentDefenseRating, b.minDefense, b.maxDefense)
      bonus == homeAwayBonus(fixture.isHome, opponentStrength)
      factor == homeAwayFactorScaled(bonus)
      formFactorScaled == scaleTo100(Num(opponentStrength.formFactor), r.minForm, r.maxForm)
      attackRaw == attackDifficultyRaw(defenseRatingScaled, attackRatingScaled, factor, formFactorScaled)
      defenseRaw == defenseDifficultyRaw(defenseRatingScaled, attackRatingScaled, factor, formFactorScaled)
  IN [opponentXG |-> v.opponentXG, opponentXGA |-> v.opponentXGA,
      opponentGF |-> v.opponentGF, opponentGA |-> v.opponentGA,
      opponentAttackRating |-> opponentAttackRating,
      opponentDefenseRating |-> opponentDefenseRating,
      minAttack |-> b.minAttack, maxAttack |-> b.maxAttack,
      minDefense |-> b.minDefense, maxDefense |-> b.maxDefense,
      attackRatingScaled |-> attackRatingScaled,
      defenseRatingScaled |-> defenseRatingScaled,
      homeAwayBonus |-> bonus, homeAwayFactorScaled |-> factor,
      formFactorScaled |-> formFactorScaled,
      attackDifficultyRaw |-> attackRaw, defenseDifficultyRaw |-> defenseRaw,
      attackDifficulty |-> scaleToDifficulty(attackRaw),
      defenseDifficulty |-> scaleToDifficulty(defenseRaw)]

\* difficulties.push({...})
RatingOf(fixture, opponentTeam, l) ==
  [gameweek |-> fixture.gameweek,
   opponentTeamId |-> fixture.opponentTeamId,
   opponentTeamName |-> opponentTeam.name,
   isHome |-> fixture.isHome,
   attackDifficulty |-> l.attackDifficulty,
   defenseDifficulty |-> l.defenseDifficulty,
   attackDifficultyRaw |-> l.attackDifficultyRaw,
   defenseDifficultyRaw |-> l.defenseDifficultyRaw]

\* Variant of Difficulties that leaves the loop (`break`) at the first opponent
\* without a strength entry.
RECURSIVE DifficultiesBreak(_, _, _)
DifficultiesBreak(upcoming, strengths, teams) ==
  IF upcoming = << >> THEN << >>
  ELSE LET fixture == Head(upcoming)
           rest == DifficultiesBreak(Tail(upcoming), strengths, teams)
       IN IF fixture.opponentTeamId \notin DOMAIN strengths THEN << >>
          ELSE IF FindTeam(teams, fixture.opponentTeamId) = 0 THEN rest
          ELSE << RatingOf(fixture, teams[FindTeam(teams, fixture.opponentTeamId)],
                           ScoreFixture(fixture, strengths[fixture.opponentTeamId],
                                        RatingRanges(strengths))) >> \o rest

\* The for-loop over upcomingFixtures: a fixture is skipped (`continue`) when the
\* opponent has no strength entry or is not in the bootstrap teams.
RECURSIVE Difficulties(_, _, _)
Difficulties(upcoming, strengths, teams) ==
  IF upcoming = << >> THEN << >>
  ELSE LET fixture == Head(upcoming)
           rest == Difficulties(Tail(upcoming), strengths, teams)
       IN IF fixture.opponentTeamId \notin DOMAIN strengths THEN rest
          ELSE IF FindTeam(teams, fixture.opponentTeamId) = 0 THEN rest
          ELSE << RatingOf(fixture, teams[FindTeam(teams, fixture.opponentTeamId)],
                           ScoreFixture(fixture, strengths[fixture.opponentTeamId],
                                        RatingRanges(strengths))) >> \o rest

\* ------------------------------------------------------------- state
VARIABLES
  teamStrengths,             \* content of the Map `this.teamStrengths` (one object, never reassigned)
  calculatingTeamStrengths,  \* NullPromise, or the pending promise (the call that created it)
  fixturesCache,             \* Null or Some(fixture list)
  bootstrapCache,            \* Null or Some(teams)
  comp,                      \* comp[k]: the execution of _calculateTeamStrengths started by call k
  call,                      \* call[c]: one call of calculateTeamStrengths / getTeamUpcomingFixtures
  lastSettled,               \* how the latest execution of _calculateTeamStrengths ended
  age,                       \* clock ticks since the map was filled
  probe,                     \* one application of a scoring function: its name, arguments, result
  page                       \* FixtureDifficultyPage: its state, its start timer, its loadAllTeamFixtures runs

vars == <<teamStrengths, calculatingTeamStrengths, fixturesCache, bootstrapCache,
          comp, call, lastSettled, age, probe, page>>

\* The state of the service object.
service == <<teamStrengths, calculatingTeamStrengths, fixturesCache, bootstrapCache,
             comp, call, lastSettled, age>>

NoProbe == [fn |-> "none", args |-> << >>, out |-> << >>]

\* FixtureDifficultyPage once loadTeams has stored the teams: maxFixtures is its
\* initial value, the effect has set the 500 ms timer (timer holds the maxFixtures
\* of the render that set it, 0 when no timer is pending), teamFixtures is the
\* empty Map, no run has started, maxFixtures has not been changed.
PageLoaded ==
  [maxFixtures |-> InitialMaxFixtures, timer |-> InitialMaxFixtures,
   teamFixtures |-> << >>, runs |-> << >>, changes |-> 0]
NoComp == [pc |-> "none", data |-> << >>, before |-> << >>]
NoCall ==
  [kind |-> "none", pc |-> "idle", teamId |-> 0, count |-> 0,
   allFixtures |-> Null, upcoming |-> << >>,
   how |-> "none", aged |-> FALSE, waitsOn |-> NullPromise,
   strengths |-> "none", handed |-> << >>,
   ratings |-> << >>, strengthIds |-> {}, teamIds |-> {}, caught |-> "no",
   outcome |-> "none"]

\* Fields of call[c].  kind: "strengths" (a direct calculateTeamStrengths call) or
\* "fixtures" (getTeamUpcomingFixtures(teamId, count)).  pc: the await the call is
\* suspended at ("fixtures", "strengths", "bootstrap"), "idle" before and "done"
\* after it.  allFixtures, upcoming: the fixture list read and the teamFixtures
\* selected from it.  how: the path taken through calculateTeamStrengths; aged:
\* the map it found there was filled more than Ttl ticks earlier; waitsOn: the promise awaited; strengths: the outcome of that call
\* ("pending", "value", "error"); handed: the content of the map when the call
\* received it.  ratings: the FixtureDifficulty[] returned; strengthIds, teamIds:
\* the keys of the map and the ids of bootstrapCache.teams when the fixtures were
\* scored.  caught: the await whose failure reached the catch of
\* getTeamUpcomingFixtures ("no" for none).  outcome: how the call ended for its
\* caller: "value" (it returned, ratings being the value of a getTeamUpcomingFixtures
\* call) or "threw" (it rejected); "none" while it runs.

Init ==
  /\ teamStrengths = << >>
  /\ calculatingTeamStrengths = NullPromise
  /\ fixturesCache = Null
  /\ bootstrapCache = Null
  /\ comp = [k \in Calls |-> NoComp]
  /\ call = [c \in Calls |-> NoCall]
  /\ lastSettled = "none"
  /\ age = 0
  /\ probe = NoProbe
  /\ page = PageLoaded

\* Executions of _calculateTeamStrengths that have started and not settled.
InProgress == {k \in Calls : comp[k].pc \in {"understat", "bootstrap"}}

\* ------------------------------------------------------------- calculateTeamStrengths
\* Variant of HasCachedStrengths that expires the map after Ttl ticks.
HasFreshStrengths(ts) == Cardinality(DOMAIN ts) > 0 /\ age <= Ttl
\* `if (this.teamStrengths.size > 0)`
HasCachedStrengths(ts) == Cardinality(DOMAIN ts) > 0
\* Variant of IsCalculating that never sees the pending promise.
IsCalculatingNever(h) == FALSE
\* `if (this.calculatingTeamStrengths)`
IsCalculating(h) == h # NullPromise
\* `this.calculatingTeamStrengths = null` after the awaited promise resolved
ClearOnSuccess(h) == NullPromise
\* Variant of ClearOnError that leaves the rejected promise in place.
KeepOnError(h) == h
\* `this.calculatingTeamStrengths = null` in the catch block
ClearOnError(h) == NullPromise

\* Variant of PathOf without the `if (this.calculatingTeamStrengths)` branch.
PathOfNoJoin(ts, h) == IF HasCachedStrengths(ts) THEN "cached" ELSE "started"

\* Which of the three paths of calculateTeamStrengths a call takes.
PathOf(ts, h) ==
  IF HasCachedStrengths(ts) THEN "cached"
  ELSE IF IsCalculating(h) THEN "joined"
  ELSE "started"

\* The scoring loop of calculateFixtureDifficulty run by the call rec over the map
\* content ts and bootstrapCache.teams; getTeamUpcomingFixtures returns its result.
Scored(rec, ts, teams) ==
  [rec EXCEPT !.pc = "done", !.outcome = "value",
              !.ratings = Difficulties(rec.upcoming, ts, teams),
              !.strengthIds = DOMAIN ts,
              !.teamIds = {teams[i].id : i \in 1..Len(teams)}]

\* Variant of Resume in which a failed computation falls back to the map as it is
\* instead of throwing.
ResumeFallback(rec, ok, ts, bc) ==
  IF rec.kind = "strengths"
    THEN [rec EXCEPT !.pc = "done", !.strengths = "value", !.handed = ts,
                     !.outcome = "value"]
  ELSE IF IsNull(bc)
    THEN [rec EXCEPT !.pc = "bootstrap", !.strengths = "value", !.handed = ts]
  ELSE Scored([rec EXCEPT !.strengths = "value", !.handed = ts], ts, Get(bc))

\* The continuation of a call after `await this.calculateTeamStrengths()` (for a
\* direct call: its caller's continuation).  ok: the promise resolved with the map
\* whose content is ts; otherwise it rejected.  A getTeamUpcomingFixtures call goes
\* on in calculateFixtureDifficulty: it fetches the bootstrap data when
\* bootstrapCache is unset, else scores its fixtures; a rejection lands in the catch
\* of getTeamUpcomingFixtures, which returns [].
Resume(rec, ok, ts, bc) ==
  IF ~ok
    THEN [rec EXCEPT !.pc = "done", !.strengths = "error",
                     !.caught = IF rec.kind = "fixtures" THEN "strengths" ELSE "no",
                     !.outcome = IF rec.kind = "fixtures" THEN "value" ELSE "threw"]
  ELSE IF rec.kind = "strengths"
    THEN [rec EXCEPT !.pc = "done", !.strengths = "value", !.handed = ts,
                     !.outcome = "value"]
  ELSE IF IsNull(bc)
    THEN [rec EXCEPT !.pc = "bootstrap", !.strengths = "value", !.handed = ts]
  ELSE Scored([rec EXCEPT !.strengths = "value", !.handed = ts], ts, Get(bc))

\* Call c, described by rec, enters calculateTeamStrengths.
EnterStrengths(c, rec) ==
  LET path == PathOf(teamStrengths, calculatingTeamStrengths)
      entered == [rec EXCEPT !.how = path, !.aged = (teamStrengths # << >> /\ age > Ttl)]
  IN /\ call' = [call EXCEPT ![c] =
                   CASE path = "cached" -> Resume(entered, TRUE, teamStrengths, bootstrapCache)
                     [] path = "joined" ->
                          [entered EXCEPT !.pc = "strengths", !.strengths = "pending",
                                          !.waitsOn = calculatingTeamStrengths]
                     [] OTHER ->
                          [entered EXCEPT !.pc = "strengths", !.strengths = "pending",
                                          !.waitsOn = c]]
     /\ calculatingTeamStrengths' =
          IF path = "started" THEN c ELSE calculatingTeamStrengths
     /\ comp' = IF path = "started"
                  THEN [comp EXCEPT ![c] = [pc |-> "understat", data |-> << >>,
                                            before |-> teamStrengths]]
                  ELSE comp

\* Calls are numbered in the order in which they are made.
MayStart(c) == call[c].pc = "idle" /\ \A p \in Calls : p < c => call[p].pc # "idle"

\* A direct call of calculateTeamStrengths (the page's effect makes one).
CalculateTeamStrengths(c) ==
  /\ MayStart(c)
  /\ EnterStrengths(c, [call[c] EXCEPT !.kind = "strengths"])
  /\ UNCHANGED <<teamStrengths, fixturesCache, bootstrapCache, lastSettled, age, probe, page>>

\* ------------------------------------------------------------- _calculateTeamStrengths
\* The promise of execution k rejects: nothing was stored; the initiating call's
\* catch clears the handle and rethrows; every call awaiting the promise resumes
\* with the error.
Reject(k) ==
  /\ comp' = [comp EXCEPT ![k].pc = "rejected", ![k].data = << >>]
  /\ calculatingTeamStrengths' = ClearOnError(calculatingTeamStrengths)
  /\ call' = [c \in Calls |->
               IF call[c].pc = "strengths" /\ call[c].waitsOn = k
                 THEN Resume(call[c], FALSE, teamStrengths, bootstrapCache)
                 ELSE call[c]]
  /\ lastSettled' = "rejected"
  /\ UNCHANGED <<teamStrengths, fixturesCache, bootstrapCache, age, probe, page>>

\* The promise of execution k resolves with this.teamStrengths after the forEach
\* stored one TeamStrength per resolved team; the initiating call clears the handle;
\* every call awaiting the promise resumes with the map.
Resolve(k, teams) ==
  /\ teamStrengths' = SetStrengths(teamStrengths, comp[k].data, teams)
  /\ comp' = [comp EXCEPT ![k].pc = "resolved", ![k].data = << >>]
  /\ calculatingTeamStrengths' = ClearOnSuccess(calculatingTeamStrengths)
  /\ call' = [c \in Calls |->
               IF call[c].pc = "strengths" /\ call[c].waitsOn = k
                 THEN Resume(call[c], TRUE, teamStrengths', bootstrapCache)
                 ELSE call[c]]
  /\ lastSettled' = "resolved"
  /\ age' = 0
  /\ UNCHANGED <<fixturesCache, bootstrapCache, probe, page>>

\* axios.get(/api/understat/team-stats) fails.
UnderstatFails(k) ==
  /\ comp[k].pc = "understat"
  /\ Reject(k)

\* axios.get(/api/understat/team-stats) answers; an empty answer throws.
UnderstatArrives(k, data) ==
  /\ comp[k].pc = "understat"
  /\ IF Len(data) = 0
       THEN Reject(k)
       ELSE /\ comp' = [comp EXCEPT ![k].pc = "bootstrap", ![k].data = data]
            /\ UNCHANGED <<teamStrengths, calculatingTeamStrengths, fixturesCache,
                           bootstrapCache, call, lastSettled, age, probe, page>>

\* axios.get(/api/bootstrap-static/) inside _calculateTeamStrengths fails.
TeamsFail(k) ==
  /\ comp[k].pc = "bootstrap"
  /\ Reject(k)

\* axios.get(/api/bootstrap-static/) inside _calculateTeamStrengths answers.
TeamsArrive(k, teams) ==
  /\ comp[k].pc = "bootstrap"
  /\ Resolve(k, teams)

\* ------------------------------------------------------------- getTeamUpcomingFixtures
\* With the fixture list at hand: select the team's fixtures and call
\* calculateFixtureDifficulty, which first awaits calculateTeamStrengths.
ScoreFrom(c, rec, allFixtures) ==
  EnterStrengths(c, [rec EXCEPT !.allFixtures = Some(allFixtures),
                                !.upcoming = TeamFixtures(allFixtures, rec.teamId, rec.count)])

\* Variant of GetTeamUpcomingFixtures that starts no second fetch of the fixture
\* list while one is in flight (the call waits for it instead).
GetTeamUpcomingFixturesSingleFlight(c, teamId, count) ==
  /\ MayStart(c)
  /\ LET rec == [call[c] EXCEPT !.kind = "fixtures", !.teamId = teamId, !.count = count]
     IN IF IsNull(fixturesCache)
          THEN /\ call' = [call EXCEPT ![c] =
                            [rec EXCEPT !.pc = IF \E p \in Calls : call[p].pc = "fixtures"
                                                 THEN "waiting" ELSE "fixtures"]]
               /\ UNCHANGED <<calculatingTeamStrengths, comp>>
          ELSE ScoreFrom(c, rec, Get(fixturesCache))
  /\ UNCHANGED <<teamStrengths, fixturesCache, bootstrapCache, lastSettled, age, probe, page>>

GetTeamUpcomingFixtures(c, teamId, count) ==
  /\ MayStart(c)
  /\ LET rec == [call[c] EXCEPT !.kind = "fixtures", !.teamId = teamId, !.count = count]
     IN IF IsNull(fixturesCache)
          THEN /\ call' = [call EXCEPT ![c] = [rec EXCEPT !.pc = "fixtures"]]
               /\ UNCHANGED <<calculatingTeamStrengths, comp>>
          ELSE ScoreFrom(c, rec, Get(fixturesCache))
  /\ UNCHANGED <<teamStrengths, fixturesCache, bootstrapCache, lastSettled, age, probe, page>>

\* Variant of FixturesFail that memoizes an empty list on failure.
FixturesFailMemoized(c) ==
  /\ call[c].pc = "fixtures"
  /\ call' = [call EXCEPT ![c].pc = "done", ![c].caught = "fixtures",
                           ![c].outcome = "value"]
  /\ fixturesCache' = Some(<< >>)
  /\ UNCHANGED <<teamStrengths, calculatingTeamStrengths, bootstrapCache,
                 comp, lastSettled, age, probe, page>>

\* axios.get(/api/fixtures/) fails: the catch returns [].
FixturesFail(c) ==
  /\ call[c].pc = "fixtures"
  /\ call' = [call EXCEPT ![c].pc = "done", ![c].caught = "fixtures",
                           ![c].outcome = "value"]
  /\ UNCHANGED <<teamStrengths, calculatingTeamStrengths, fixturesCache, bootstrapCache,
                 comp, lastSettled, age, probe, page>>

\* axios.get(/api/fixtures/) answers: the list is memoized and used.
FixturesArrive(c, fixtures) ==
  /\ call[c].pc = "fixtures"
  /\ fixturesCache' = Some(fixtures)
  /\ ScoreFrom(c, call[c], fixtures)
  /\ UNCHANGED <<teamStrengths, bootstrapCache, lastSettled, age, probe, page>>

\* ------------------------------------------------------------- calculateFixtureDifficulty
\* axios.get(/api/bootstrap-static/) of calculateFixtureDifficulty fails: the
\* rejection lands in the catch of getTeamUpcomingFixtures.
BootstrapFails(c) ==
  /\ call[c].pc = "bootstrap"
  /\ call' = [call EXCEPT ![c].pc = "done", ![c].caught = "bootstrap",
                           ![c].outcome = "value"]
  /\ UNCHANGED <<teamStrengths, calculatingTeamStrengths, fixturesCache, bootstrapCache,
                 comp, lastSettled, age, probe, page>>

\* It answers: the data is memoized and the fixtures are scored against the map
\* the call holds a reference to (its content is read now).
BootstrapArrives(c, teams) ==
  /\ call[c].pc = "bootstrap"
  /\ bootstrapCache' = Some(teams)
  /\ call' = [call EXCEPT ![c] = Scored(call[c], teamStrengths, teams)]
  /\ UNCHANGED <<teamStrengths, calculatingTeamStrengths, fixturesCache,
                 comp, lastSettled, age, probe, page>>

\* ------------------------------------------------------------- time
\* The clock advances; nothing in the service reads it.  Time that passes while
\* the map is empty ages no entry and is not followed.
Tick ==
  /\ teamStrengths # << >>
  /\ age < MaxAge
  /\ age' = age + 1
  /\ UNCHANGED <<teamStrengths, calculatingTeamStrengths, fixturesCache, bootstrapCache,
                 comp, call, lastSettled, probe, page>>

\* ------------------------------------------------------------- specifications
Next ==
  \/ \E c \in Calls : CalculateTeamStrengths(c)
  \/ \E c \in Calls, r \in Requests : GetTeamUpcomingFixtures(c, r[1], r[2])
  \/ \E c \in Calls : FixturesFail(c)
  \/ \E c \in Calls, fixtures \in FixtureResponses : FixturesArrive(c, fixtures)
  \/ \E k \in Calls : UnderstatFails(k)
  \/ \E k \in Calls, data \in UnderstatResponses : UnderstatArrives(k, data)
  \/ \E k \in Calls : TeamsFail(k)
  \/ \E k \in Calls, teams \in BootstrapResponses : TeamsArrive(k, teams)
  \/ \E c \in Calls : BootstrapFails(c)
  \/ \E c \in Calls, teams \in BootstrapResponses : BootstrapArrives(c, teams)

Spec == Init /\ [][Next]_vars

NextTimed == Next \/ Tick

SpecTimed == Init /\ [][NextTimed]_vars

\* ------------------------------------------------------------- the scoring functions alone
\* One application of scaleTo100, scaleTo100Inverted, the two composites, of
\* calculateFixtureDifficulty to one fixture, or of the team loop of
\* _calculateTeamStrengths: Init draws the arguments, the action stores the result.

\* Statistics of four teams: one strong and one weak at both ends, one with a
\* strong attack and a weak defence, one in between, with small and large bonuses.
ScoreStats ==
  << Stat(1, "Arsenal",   200, 100, 200, 100, 220,  90, 180, 110, 220,  90, 180, 110,  300,  300,  50),
     Stat(2, "Leeds United", 100, 200, 100, 200, 120, 190,  80, 210, 120, 190,  80, 210,   50, -100, -50),
     Stat(3, "Tottenham", 200, 200, 200, 200, 220, 190, 180, 210, 220, 190, 180, 210,  300, -300, -50),
     Stat(4, "Chelsea",   140, 100, 140, 100, 150,  90, 130, 110, 170,  90, 110, 110, -300,  300,  20) >>
ScoreTeams == << Team(1, "Arsenal"), Team(2, "Leeds"), Team(3, "Spurs"), Team(4, "Chelsea") >>

\* The records of ScoreStats of the teams in ids.
StatsOf(ids) == LET In(u) == u.team_id \in ids IN SelectSeq(ScoreStats, In)

\* Arguments of scaleTo100 / scaleTo100Inverted, and already scaled values.
ScaleArgs == {Q(x, 1) : x \in 0..MaxValue}
ScaledValues == {Q(100 * i, ScaleSteps) : i \in 0..ScaleSteps}

ProbeInputs ==
  [fn : {"scaleTo100"}, args : ScaleArgs \X ScaleArgs \X ScaleArgs \X ScaleArgs, out : {<< >>}]
  \cup [fn : {"scaleTo100Inverted"}, args : ScaleArgs \X ScaleArgs \X ScaleArgs, out : {<< >>}]
  \cup [fn : {"composite"},
        args : ScaledValues \X ScaledValues \X ScaledValues \X ScaledValues, out : {<< >>}]
  \cup [fn : {"strengths"},
        args : [data : {UnderstatById, UnderstatByName, UnderstatMixed, UnderstatUnmatched},
                teams : {BootstrapFull, BootstrapShort, ScoreTeams}],
        out : {<< >>}]
  \cup [fn : {"score"},
        args : [ids : SUBSET {u.team_id : u \in {ScoreStats[i] : i \in 1..Len(ScoreStats)}},
                fixture : [gameweek : {1},
                           opponentTeamId : {ScoreTeams[i].id : i \in 1..Len(ScoreTeams)},
                           isHome : BOOLEAN]],
        out : {<< >>}]

InitScoring ==
  /\ teamStrengths = << >>
  /\ calculatingTeamStrengths = NullPromise
  /\ fixturesCache = Null
  /\ bootstrapCache = Null
  /\ comp = [k \in Calls |-> NoComp]
  /\ call = [c \in Calls |-> NoCall]
  \* (the service stays as constructed)
  /\ lastSettled = "none"
  /\ age = 0
  /\ probe \in ProbeInputs
  /\ page = PageLoaded

\* scaleTo100 applied to two values and one range: args = <<v1, v2, min, max>>.
ApplyScaleTo100 ==
  /\ probe.fn = "scaleTo100" /\ probe.out = << >>
  /\ probe' = [probe EXCEPT !.out =
                 << scaleTo100(probe.args[1], probe.args[3], probe.args[4]),
                    scaleTo100(probe.args[2], probe.args[3], probe.args[4]) >>]
  /\ UNCHANGED <<service, page>>

\* scaleTo100Inverted and scaleTo100 applied to the same args = <<v, min, max>>.
ApplyScaleTo100Inverted ==
  /\ probe.fn = "scaleTo100Inverted" /\ probe.out = << >>
  /\ probe' = [probe EXCEPT !.out =
                 << scaleTo100Inverted(probe.args[1], probe.args[2], probe.args[3]),
                    scaleTo100(probe.args[1], probe.args[2], probe.args[3]) >>]
  /\ UNCHANGED <<service, page>>

\* The two composites applied to args = <<d, a, h, f>>: the attack composite of
\* (defenseRatingScaled = d, attackRatingScaled = a) and the defense composite of
\* (defenseRatingScaled = a, attackRatingScaled = d).
ApplyComposite ==
  /\ probe.fn = "composite" /\ probe.out = << >>
  /\ probe' = [probe EXCEPT !.out =
                 << attackDifficultyRaw(probe.args[1], probe.args[2], probe.args[3], probe.args[4]),
                    defenseDifficultyRaw(probe.args[2], probe.args[1], probe.args[3], probe.args[4]) >>]
  /\ UNCHANGED <<service, page>>

\* calculateFixtureDifficulty applied to one fixture, over the strengths computed
\* from the statistics of the teams args.ids: out is the map, the bounds taken
\* from it, the local constants of the loop iteration (none when the fixture is
\* skipped) and the result.
ApplyScore ==
  /\ probe.fn = "score" /\ probe.out = << >>
  /\ LET ts == SetStrengths(<< >>, StatsOf(probe.args.ids), ScoreTeams)
         fixture == probe.args.fixture
     IN probe' = [probe EXCEPT !.out =
                    << [strengths |-> ts,
                        ranges |-> RatingRanges(ts),
                        locals |-> IF fixture.opponentTeamId \in DOMAIN ts
                                     THEN << ScoreFixture(fixture, ts[fixture.opponentTeamId],
                                                          RatingRanges(ts)) >>
                                     ELSE << >>,
                        ratings |-> Difficulties(<<fixture>>, ts, ScoreTeams)] >>]
  /\ UNCHANGED <<service, page>>

\* The forEach of _calculateTeamStrengths applied to the provider records
\* args.data and the directory args.teams, over an empty map: out is the map.
ApplyStrengths ==
  /\ probe.fn = "strengths" /\ probe.out = << >>
  /\ probe' = [probe EXCEPT !.out = << SetStrengths(<< >>, probe.args.data, probe.args.teams) >>]
  /\ UNCHANGED <<service, page>>

NextScoring ==
  \/ ApplyStrengths
  \/ ApplyScaleTo100
  \/ ApplyScaleTo100Inverted
  \/ ApplyComposite
  \/ ApplyScore

SpecScoring == InitScoring /\ [][NextScoring]_vars

\* ------------------------------------------------------------- FixtureDifficultyPage
\* The page's teams, by id, in the order of the `teams` array.
PageTeams == [i \in 1..NumTeams |-> i]

\* A run of the timer callback: pc is "strengths" while it awaits
\* calculateTeamStrengths, "batch" while it awaits Promise.allSettled, "pause" while
\* it awaits the 100 ms timeout, "done" after the loop, "failed" when
\* calculateTeamStrengths rejected.  maxFixtures: the value its closure holds.
\* i: the loop index.  fixturesMap: its private map, team id -> entry.  inflight:
\* the teams whose getTeamUpcomingFixtures call it awaits.
NewRun(maxFixtures) ==
  [pc |-> "strengths", maxFixtures |-> maxFixtures, i |-> 0,
   fixturesMap |-> << >>, inflight |-> {}]

\* fixturesMap.set(team.id, {team, fixtures: [], loading: true}); a loaded entry
\* records in `fixtures` the count its fixtures were fetched with.
LoadingEntry == [loading |-> TRUE, fixtures |-> 0]
LoadedEntry(maxFixtures) == [loading |-> FALSE, fixtures |-> maxFixtures]

\* Variant of Batch that takes all remaining teams.
BatchRest(teams, i) == {teams[j] : j \in (i + 1)..Len(teams)}

\* teams.slice(i, i + batchSize)
Batch(teams, i) ==
  {teams[j] : j \in (i + 1)..(IF i + batchSize < Len(teams) THEN i + batchSize ELSE Len(teams))}

\* The 500 ms timer fires: the callback starts and awaits calculateTeamStrengths.
TimerFires ==
  /\ page.timer # 0
  /\ Len(page.runs) < MaxRuns
  /\ page' = [page EXCEPT !.timer = 0, !.runs = Append(page.runs, NewRun(page.timer))]
  /\ UNCHANGED <<service, probe>>

\* calculateTeamStrengths resolved: loadAllTeamFixtures fills its map with loading
\* entries, stores it, and issues the calls of the first batch.
StrengthsReady(r) ==
  /\ r \in 1..Len(page.runs)
  /\ page.runs[r].pc = "strengths"
  /\ LET fixturesMap == [t \in {PageTeams[j] : j \in 1..Len(PageTeams)} |-> LoadingEntry]
     IN page' = [page EXCEPT !.teamFixtures = fixturesMap,
                             !.runs[r] = [@ EXCEPT !.pc = "batch", !.i = 0,
                                                   !.fixturesMap = fixturesMap,
                                                   !.inflight = Batch(PageTeams, 0)]]
  /\ UNCHANGED <<service, probe>>

\* calculateTeamStrengths rejected: the callback's catch sets the error message.
StrengthsUnavailable(r) ==
  /\ r \in 1..Len(page.runs)
  /\ page.runs[r].pc = "strengths"
  /\ page' = [page EXCEPT !.runs[r].pc = "failed"]
  /\ UNCHANGED <<service, probe>>

\* One getTeamUpcomingFixtures call of the batch settles: its entry is put into the
\* run's map and a copy of the map is stored; after the last one of the batch
\* Promise.allSettled resolves and the pause begins.
CallSettles(r, team) ==
  /\ r \in 1..Len(page.runs)
  /\ page.runs[r].pc = "batch"
  /\ team \in page.runs[r].inflight
  /\ LET run == page.runs[r]
         fixturesMap == [run.fixturesMap EXCEPT ![team] = LoadedEntry(run.maxFixtures)]
         inflight == run.inflight \ {team}
     IN page' = [page EXCEPT !.teamFixtures = fixturesMap,
                             !.runs[r] = [@ EXCEPT !.fixturesMap = fixturesMap,
                                                   !.inflight = inflight,
                                                   !.pc = IF inflight = {} THEN "pause"
                                                                           ELSE "batch"]]
  /\ UNCHANGED <<service, probe>>

\* The 100 ms pause is over: i += batchSize, then the next batch or the end.
PauseElapses(r) ==
  /\ r \in 1..Len(page.runs)
  /\ page.runs[r].pc = "pause"
  /\ LET i == page.runs[r].i + batchSize
     IN page' = [page EXCEPT !.runs[r] =
                   IF i < Len(PageTeams)
                     THEN [@ EXCEPT !.i = i, !.pc = "batch", !.inflight = Batch(PageTeams, i)]
                     ELSE [@ EXCEPT !.i = i, !.pc = "done"]]
  /\ UNCHANGED <<service, probe>>

\* Variant of SetMaxFixtures whose effect cleanup also abandons the runs in progress.
SetMaxFixturesCancelling(maxFixtures) ==
  /\ maxFixtures # page.maxFixtures
  /\ page.changes < MaxChanges
  /\ page' = [page EXCEPT !.maxFixtures = maxFixtures, !.timer = maxFixtures,
                          !.changes = @ + 1,
                          !.runs = [r \in 1..Len(page.runs) |->
                                      [page.runs[r] EXCEPT !.pc = "done", !.inflight = {}]]]
  /\ UNCHANGED <<service, probe>>

\* setMaxFixtures(value): the effect's cleanup clears the pending timer and the
\* effect sets a new one.
SetMaxFixtures(maxFixtures) ==
  /\ maxFixtures # page.maxFixtures
  /\ page.changes < MaxChanges
  /\ page' = [page EXCEPT !.maxFixtures = maxFixtures, !.timer = maxFixtures,
                          !.changes = @ + 1]
  /\ UNCHANGED <<service, probe>>

NextPage ==
  \/ TimerFires
  \/ \E r \in 1..MaxRuns : StrengthsReady(r)
  \/ \E r \in 1..MaxRuns : StrengthsUnavailable(r)
  \/ \E r \in 1..MaxRuns, team \in 1..NumTeams : CallSettles(r, team)
  \/ \E r \in 1..MaxRuns : PauseElapses(r)
  \/ \E maxFixtures \in {InitialMaxFixtures, OtherMaxFixtures} : SetMaxFixtures(maxFixtures)

SpecPage == Init /\ [][NextPage]_vars

\* ------------------------------------------------------------- properties
\* Call c enters calculateTeamStrengths in this step.
Entered(c) == call[c].how = "none" /\ call'[c].how # "none"
\* An execution of _calculateTeamStrengths starts in this step, for call k.
Started(k) == comp[k].pc = "none" /\ comp'[k].pc = "understat"
\* getTeamUpcomingFixtures call c returned the result of calculateFixtureDifficulty.
ScoredCall(c) == call[c].kind = "fixtures" /\ call[c].pc = "done" /\ call[c].caught = "no"
\* What identifies the fixture of a teamFixtures entry or of a rating.
Entry(f) == <<f.gameweek, f.opponentTeamId, f.isHome>>
Entries(fs) == [i \in 1..Len(fs) |-> Entry(fs[i])]

\* C1: in every reachable state at most one execution of _calculateTeamStrengths
\* is in progress (so a call arriving during one never starts a second).
C1_AtMostOneComputation == Cardinality(InProgress) <= 1

C1_JoinedWhileComputing ==
  \E c \in Calls :
    call[c].pc = "strengths" /\ call[c].how = "joined" /\ Cardinality(InProgress) = 1

\* C2: calls awaiting calculateTeamStrengths at the same time await one and the
\* same execution, which exactly one of them started, and the calls that awaited
\* one execution all get the same outcome and the same map.
C2_OneInvocationSharedResult ==
  /\ \A c1, c2 \in Calls :
       call[c1].pc = "strengths" /\ call[c2].pc = "strengths"
         => call[c1].waitsOn = call[c2].waitsOn
  /\ \A c \in Calls :
       call[c].how = "joined"
         => call[c].waitsOn # c /\ call[call[c].waitsOn].how = "started"
  /\ \A c1, c2 \in Calls :
       call[c1].waitsOn # NullPromise /\ call[c1].waitsOn = call[c2].waitsOn
         => call[c1].strengths = call[c2].strengths /\ call[c1].handed = call[c2].handed

C2_TwoCallersOneResult ==
  \E c1, c2 \in Calls :
    /\ c1 # c2
    /\ call[c1].how = "started" /\ call[c2].how = "joined" /\ call[c2].waitsOn = c1
    /\ call[c1].strengths = "value" /\ call[c2].strengths = "value"
    /\ call[c1].handed # << >>
    /\ Cardinality({k \in Calls : comp[k].pc # "none"}) = 1

C5_ReadyAfterAnySuccess ==
  [][\A c \in Calls :
       Entered(c) /\ (\E k \in Calls : comp[k].pc = "resolved")
         => call'[c].how = "cached" /\ \A k \in Calls : ~Started(k)]_vars

C7_ReturnedMapNeverModified ==
  \A c \in Calls : call[c].strengths = "value" => teamStrengths = call[c].handed

\* The fixtures of the list `all` that getTeamUpcomingFixtures(t, ...) may select.
Eligible(all, t) ==
  {i \in 1..Len(all) : ~all[i].finished /\ (all[i].team_h = t \/ all[i].team_a = t)}

\* C8: the fixtures getTeamUpcomingFixtures(teamId, count) hands to the scorer are
\* min(count, number of eligible) distinct unfinished fixtures of the team, in
\* non-decreasing gameweek order, none later than an eligible fixture left out,
\* each with isHome true iff the team is the home team and with the other team as
\* opponent; and every rating returned is the rating of one of them.
C8_NextCountFixtures ==
  \A c \in Calls :
    ~IsNull(call[c].allFixtures) =>
      LET all == Get(call[c].allFixtures)
          t == call[c].teamId
          u == call[c].upcoming
          el == Eligible(all, t)
      IN /\ Len(u) = IF call[c].count < Cardinality(el) THEN call[c].count
                                                        ELSE Cardinality(el)
         /\ \E pick \in [1..Len(u) -> el] :
              /\ \A i, j \in 1..Len(u) : i # j => pick[i] # pick[j]
              /\ \A j \in 1..Len(u) :
                   /\ u[j].gameweek = all[pick[j]].event
                   /\ u[j].isHome = (all[pick[j]].team_h = t)
                   /\ u[j].isHome => u[j].opponentTeamId = all[pick[j]].team_a
                   /\ ~u[j].isHome => u[j].opponentTeamId = all[pick[j]].team_h
              /\ \A i, j \in 1..Len(u) :
                   i < j => ToNumber(all[pick[i]].event) <= ToNumber(all[pick[j]].event)
              /\ \A i \in el \ {pick[j] : j \in 1..Len(u)} :
                   \A j \in 1..Len(u) :
                     ToNumber(all[pick[j]].event) <= ToNumber(all[i].event)
         /\ \A r \in 1..Len(call[c].ratings) :
              \E j \in 1..Len(u) : Entry(call[c].ratings[r]) = Entry(u[j])

C8_HorizonCutAndScored ==
  \E c \in Calls :
    /\ ScoredCall(c)
    /\ Len(call[c].upcoming) = call[c].count
    /\ call[c].count < Cardinality(Eligible(Get(call[c].allFixtures), call[c].teamId))
    /\ Len(call[c].ratings) = call[c].count
    /\ \E i, j \in 1..Len(call[c].ratings) :
         call[c].ratings[i].isHome /\ ~call[c].ratings[j].isHome

\* C9: the gameweeks of the ratings one getTeamUpcomingFixtures call returns are
\* non-decreasing along the list (a null gameweek counts as 0, as in the sort).
C9_RatingsChronological ==
  \A c \in Calls :
    \A i, j \in 1..Len(call[c].ratings) :
      i < j => ToNumber(call[c].ratings[i].gameweek) <= ToNumber(call[c].ratings[j].gameweek)

C9_OrderedWithSkip ==
  \E c \in Calls :
    /\ ScoredCall(c)
    /\ Len(call[c].ratings) >= 2
    /\ Len(call[c].ratings) < Len(call[c].upcoming)
    /\ call[c].ratings[1].gameweek # call[c].ratings[2].gameweek

\* C10 as stated: the ratings returned are those of the fixtures whose opponent
\* has a strength entry, in order: exactly the others are left out.
C10_OnlyUnmappedOmitted ==
  \A c \in Calls :
    ScoredCall(c) =>
      LET Mapped(f) == f.opponentTeamId \in call[c].strengthIds
      IN Entries(call[c].ratings) = Entries(SelectSeq(call[c].upcoming, Mapped))

\* C10 as amended: the ratings returned are those of the fixtures whose opponent
\* has a strength entry and is in the bootstrap team list, in order; no rating
\* is made up for an opponent without a strength entry.
C10_UnresolvedOmittedRestScored ==
  \A c \in Calls :
    ScoredCall(c) =>
      LET Resolved(f) == /\ f.opponentTeamId \in call[c].strengthIds
                         /\ f.opponentTeamId \in call[c].teamIds
      IN /\ Entries(call[c].ratings) = Entries(SelectSeq(call[c].upcoming, Resolved))
         /\ \A r \in 1..Len(call[c].ratings) :
              call[c].ratings[r].opponentTeamId \in call[c].strengthIds

C10_SkippedThenScored ==
  \E c \in Calls :
    /\ ScoredCall(c)
    /\ \E i, j \in 1..Len(call[c].upcoming) :
         /\ i < j
         /\ call[c].upcoming[i].opponentTeamId \notin call[c].strengthIds
         /\ call[c].upcoming[j].opponentTeamId \in call[c].strengthIds
         /\ \E r \in 1..Len(call[c].ratings) :
              Entry(call[c].ratings[r]) = Entry(call[c].upcoming[j])

\* C11: a getTeamUpcomingFixtures call during which the fixture list or the
\* team statistics could not be fetched ends by throwing to its caller.
C11_FailurePropagated ==
  \A c \in Calls :
    call[c].kind = "fixtures" /\ call[c].pc = "done" /\ call[c].caught # "no"
      => call[c].outcome = "threw"

\* The application of calculateFixtureDifficulty to one fixture has been made.
ScoreDone == probe.fn = "score" /\ probe.out # << >>
\* The local constants of every loop iteration that scored a fixture.
ScoredLocals == IF ScoreDone THEN {probe.out[1].locals[i] : i \in 1..Len(probe.out[1].locals)} ELSE {}
\* Every rating produced: by the application above, or returned to a call.
Produced ==
  (IF ScoreDone THEN {probe.out[1].ratings[i] : i \in 1..Len(probe.out[1].ratings)} ELSE {})
  \cup UNION {{call[c].ratings[i] : i \in 1..Len(call[c].ratings)} : c \in Calls}

\* b is the bucket of raw under the thresholds 20, 40, 60, 80, a boundary value
\* belonging to the lower bucket.
Bucketed(raw, b) ==
  /\ b \in 1..5
  /\ b = 1 <=> QLeq(raw, Q(20, 1))
  /\ b = 2 <=> QLt(Q(20, 1), raw) /\ QLeq(raw, Q(40, 1))
  /\ b = 3 <=> QLt(Q(40, 1), raw) /\ QLeq(raw, Q(60, 1))
  /\ b = 4 <=> QLt(Q(60, 1), raw) /\ QLeq(raw, Q(80, 1))
  /\ b = 5 <=> QLt(Q(80, 1), raw)

\* C12: in every rating produced, attackDifficulty and defenseDifficulty are the
\* buckets of attackDifficultyRaw and defenseDifficultyRaw (<= 20 -> 1, <= 40 -> 2,
\* <= 60 -> 3, <= 80 -> 4, else 5), so integers in 1..5.
C12_BucketsOfRaw ==
  \A r \in Produced :
    /\ Bucketed(r.attackDifficultyRaw, r.attackDifficulty)
    /\ Bucketed(r.defenseDifficultyRaw, r.defenseDifficulty)

C12_BoundaryInLowerBucket ==
  \E r1 \in Produced :
    /\ r1.attackDifficultyRaw = Q(20, 1) /\ r1.attackDifficulty = 1
    /\ r1.defenseDifficultyRaw = Q(70, 1) /\ r1.defenseDifficulty = 4

\* C13: in every rating produced, attackDifficultyRaw and defenseDifficultyRaw
\* lie in [0, 100].
C13_RawWithin0And100 ==
  \A r \in Produced :
    /\ QLeq(Q(0, 1), r.attackDifficultyRaw) /\ QLeq(r.attackDifficultyRaw, Q(100, 1))
    /\ QLeq(Q(0, 1), r.defenseDifficultyRaw) /\ QLeq(r.defenseDifficultyRaw, Q(100, 1))

C13_ClampedAtTheTop ==
  \E l \in ScoredLocals :
    /\ QLt(Q(5, 2), l.homeAwayBonus)
    /\ l.homeAwayFactorScaled = Q(100, 1)
    /\ l.attackDifficultyRaw = Q(100, 1)
    /\ \E r \in Produced : r.attackDifficultyRaw = Q(100, 1)

\* w1 * d + w2 * a + w3 * h + w4 * f for weights given in hundredths
Weighted(w1, d, w2, a, w3, h, w4, f) ==
  QDiv(QAdd(QAdd(QMul(Q(w1, 1), d), QMul(Q(w2, 1), a)),
            QAdd(QMul(Q(w3, 1), h), QMul(Q(w4, 1), f))), Q(100, 1))

\* C14: for every scored fixture attackDifficultyRaw = 0.45 * defenseRatingScaled +
\* 0.45 * attackRatingScaled + 0.05 * homeAwayFactorScaled + 0.05 * formFactorScaled,
\* and defenseDifficultyRaw has the same weights with the attack rating first.
C14_EvenWeights ==
  \A l \in ScoredLocals :
    /\ l.attackDifficultyRaw =
         Weighted(45, l.defenseRatingScaled, 45, l.attackRatingScaled,
                  5, l.homeAwayFactorScaled, 5, l.formFactorScaled)
    /\ l.defenseDifficultyRaw =
         Weighted(45, l.attackRatingScaled, 45, l.defenseRatingScaled,
                  5, l.homeAwayFactorScaled, 5, l.formFactorScaled)

C16_Mirror ==
  probe.fn = "composite" /\ probe.out # << >> => probe.out[1] = probe.out[2]

C16_MirroredUnequalInputs ==
  /\ probe.fn = "composite" /\ probe.out # << >>
  /\ probe.args[1] # probe.args[2] /\ probe.args[3] # probe.args[4]
  /\ probe.args[4] # Q(0, 1)
  /\ probe.out[1] = probe.out[2]

\* The fixture scored by the application, its opponent's strength entry and the map.
ScoredFixture == probe.args.fixture
ScoredMap == probe.out[1].strengths
ScoredOpponent == ScoredMap[ScoredFixture.opponentTeamId]

\* C17: for a home fixture the scorer reads the opponent's away xG, xGA, GF and GA
\* and scales with the smallest and largest away attack and away defense rating of
\* the map; for an away fixture it reads the home splits and the home bounds.
C17_OpponentVenueInverse ==
  \A l \in ScoredLocals :
    LET s == ScoredOpponent
        all(F(_)) == {F(ScoredMap[id]) : id \in DOMAIN ScoredMap}
    IN IF ScoredFixture.isHome
         THEN /\ l.opponentXG = s.xGPer90Away /\ l.opponentXGA = s.xGAPer90Away
              /\ l.opponentGF = s.gfPer90Away /\ l.opponentGA = s.gaPer90Away
              /\ l.minAttack = QMinOf(all(awayAttack)) /\ l.maxAttack = QMaxOf(all(awayAttack))
              /\ l.minDefense = QMinOf(all(awayDefense)) /\ l.maxDefense = QMaxOf(all(awayDefense))
         ELSE /\ l.opponentXG = s.xGPer90Home /\ l.opponentXGA = s.xGAPer90Home
              /\ l.opponentGF = s.gfPer90Home /\ l.opponentGA = s.gaPer90Home
              /\ l.minAttack = QMinOf(all(homeAttack)) /\ l.maxAttack = QMaxOf(all(homeAttack))
              /\ l.minDefense = QMinOf(all(homeDefense)) /\ l.maxDefense = QMaxOf(all(homeDefense))

C17_HomeFixtureAwaySplits ==
  \E l \in ScoredLocals :
    /\ ScoredFixture.isHome
    /\ ScoredOpponent.xGPer90Away # ScoredOpponent.xGPer90Home
    /\ l.opponentXG = ScoredOpponent.xGPer90Away
    /\ l.maxAttack # l.minAttack
    /\ l.maxAttack # QMaxOf({homeAttack(ScoredMap[id]) : id \in DOMAIN ScoredMap})

C19_ScaleTo100Monotone ==
  probe.fn = "scaleTo100" /\ probe.out # << >> /\ QLt(probe.args[3], probe.args[4]) =>
    /\ QLeq(probe.args[1], probe.args[2]) => QLeq(probe.out[1], probe.out[2])
    /\ probe.args[1] = probe.args[3] => probe.out[1] = Q(0, 1)
    /\ probe.args[1] = probe.args[4] => probe.out[1] = Q(100, 1)

C19_GrowsInsideTheRange ==
  /\ probe.fn = "scaleTo100" /\ probe.out # << >>
  /\ QLt(probe.args[3], probe.args[1]) /\ QLt(probe.args[1], probe.args[2])
  /\ QLt(probe.args[2], probe.args[4])
  /\ QLt(Q(0, 1), probe.out[1]) /\ QLt(probe.out[1], probe.out[2])
  /\ QLt(probe.out[2], Q(100, 1))

\* C20: for min < max, scaleTo100Inverted(v, min, max) = 100 - scaleTo100(v, min, max);
\* it is 100 at min and 0 at max.
C20_InvertedIsComplement ==
  probe.fn = "scaleTo100Inverted" /\ probe.out # << >> /\ QLt(probe.args[2], probe.args[3]) =>
    /\ probe.out[1] = QSub(Q(100, 1), probe.out[2])
    /\ probe.args[1] = probe.args[2] => probe.out[1] = Q(100, 1)
    /\ probe.args[1] = probe.args[3] => probe.out[1] = Q(0, 1)

C20_ComplementInsideTheRange ==
  /\ probe.fn = "scaleTo100Inverted" /\ probe.out # << >>
  /\ QLt(probe.args[2], probe.args[1]) /\ QLt(probe.args[1], probe.args[3])
  /\ probe.out[1] # probe.out[2]
  /\ QAdd(probe.out[1], probe.out[2]) = Q(100, 1)

\* The bounds calculateFixtureDifficulty took from the map it was applied to.
ScoredRanges == probe.out[1].ranges

\* C21: scaleTo100 and scaleTo100Inverted answer 50 whenever min = max, whatever
\* the value; a fixture scored over a map in which a metric has one value only
\* gets 50 for that metric, and is rated.
C21_DegenerateIsFifty ==
  /\ probe.fn = "scaleTo100" /\ probe.out # << >> /\ probe.args[3] = probe.args[4]
       => probe.out[1] = Q(50, 1) /\ probe.out[2] = Q(50, 1)
  /\ probe.fn = "scaleTo100Inverted" /\ probe.out # << >> /\ probe.args[2] = probe.args[3]
       => probe.out[1] = Q(50, 1)
  /\ \A l \in ScoredLocals :
       /\ l.minAttack = l.maxAttack => l.attackRatingScaled = Q(50, 1)
       /\ l.minDefense = l.maxDefense => l.defenseRatingScaled = Q(50, 1)
       /\ ScoredRanges.minForm = ScoredRanges.maxForm => l.formFactorScaled = Q(50, 1)
       /\ Len(probe.out[1].ratings) = 1

C21_SingleTeamLeague ==
  /\ ScoreDone
  /\ Cardinality(DOMAIN ScoredMap) = 1
  /\ \E l \in ScoredLocals :
       /\ l.attackRatingScaled = Q(50, 1) /\ l.defenseRatingScaled = Q(50, 1)
       /\ l.formFactorScaled = Q(50, 1)
  /\ Len(probe.out[1].ratings) = 1

\* The five (min, max) pairs of normalization bounds.
BoundsPairs(r) ==
  { <<r.minHomeAttack, r.maxHomeAttack>>, <<r.minAwayAttack, r.maxAwayAttack>>,
    <<r.minHomeDefense, r.maxHomeDefense>>, <<r.minAwayDefense, r.maxAwayDefense>>,
    <<r.minForm, r.maxForm>> }

\* C22 as stated: whatever map calculateFixtureDifficulty is applied to, each of
\* its five bounds pairs has min <= max.
C22_MinAtMostMax ==
  ScoreDone => \A b \in BoundsPairs(ScoredRanges) : QLeq(b[1], b[2])

\* C22 as amended: over a map with at least one entry each of the five bounds
\* pairs has min <= max; over the empty map every pair is (Infinity, -Infinity),
\* and no fixture is scaled with it (the result is empty).
C22_MinAtMostMaxUnlessEmpty ==
  ScoreDone =>
    IF ScoredMap # << >>
      THEN \A b \in BoundsPairs(ScoredRanges) : QLeq(b[1], b[2])
      ELSE /\ \A b \in BoundsPairs(ScoredRanges) : b = <<PosInf, NegInf>>
           /\ probe.out[1].ratings = << >> /\ ScoredLocals = {}

C22_ProperAndDegenerateRanges ==
  /\ ScoreDone
  /\ QLt(ScoredRanges.minForm, ScoredRanges.maxForm)
  /\ ScoredRanges.minHomeDefense = ScoredRanges.maxHomeDefense
  /\ Cardinality(DOMAIN ScoredMap) >= 2

\* The team loop of _calculateTeamStrengths has been applied.
StrengthsDone == probe.fn = "strengths" /\ probe.out # << >>
\* The provider records carrying the id of team t, and those carrying the name
\* the name table gives for t.
RecordsById(data, t) == {j \in 1..Len(data) : data[j].team_id = t.id}
RecordsByName(data, t) ==
  {j \in 1..Len(data) :
     t.name \in DOMAIN fplToUnderstatMap /\ data[j].team_name = fplToUnderstatMap[t.name]}

\* C23: a directory team with a provider record of its id gets its strength from
\* such a record; one without, from a record of its mapped name; one with neither
\* has no entry in the map, whose other entries are computed all the same.
C23_IdFirstThenName ==
  StrengthsDone =>
    LET data == probe.args.data
        teams == probe.args.teams
        ts == probe.out[1]
    IN /\ DOMAIN ts \subseteq {teams[i].id : i \in 1..Len(teams)}
       /\ \A i \in 1..Len(teams) :
            LET t == teams[i]
            IN IF RecordsById(data, t) # {}
                 THEN /\ t.id \in DOMAIN ts
                      /\ \E j \in RecordsById(data, t) : ts[t.id] = TeamStrengthOf(t, data[j])
               ELSE IF RecordsByName(data, t) # {}
                 THEN /\ t.id \in DOMAIN ts
                      /\ \E j \in RecordsByName(data, t) : ts[t.id] = TeamStrengthOf(t, data[j])
               ELSE t.id \notin DOMAIN ts

C23_ByIdByNameAndSkipped ==
  /\ StrengthsDone
  /\ \E i, j, k \in 1..Len(probe.args.teams) :
       LET data == probe.args.data
           t1 == probe.args.teams[i]
           t2 == probe.args.teams[j]
           t3 == probe.args.teams[k]
       IN /\ RecordsById(data, t1) # {} /\ RecordsByName(data, t1) # {}
          /\ RecordsById(data, t2) = {} /\ RecordsByName(data, t2) # {}
          /\ RecordsById(data, t3) = {} /\ RecordsByName(data, t3) = {}
          /\ DOMAIN probe.out[1] = {t1.id, t2.id}

\* Every TeamStrength record built: those of the service's map and those of the
\* maps built by the applications above.
BuiltStrengths ==
  {teamStrengths[id] : id \in DOMAIN teamStrengths}
  \cup (IF StrengthsDone THEN {probe.out[1][id] : id \in DOMAIN probe.out[1]} ELSE {})
  \cup (IF ScoreDone THEN {ScoredMap[id] : id \in DOMAIN ScoredMap} ELSE {})

\* C24: in every TeamStrength record built, homeAttackBonus = xGPer90Home - xGPer90
\* and homeDefenseBonus = xGAPer90 - xGAPer90Home.
C24_BonusesDerived ==
  \A s \in BuiltStrengths :
    /\ s.homeAttackBonus = s.xGPer90Home - s.xGPer90
    /\ s.homeDefenseBonus = s.xGAPer90 - s.xGAPer90Home

\* Call c enters getTeamUpcomingFixtures in this step.
EntersFixtures(c) == call[c].pc = "idle" /\ call'[c].kind = "fixtures"
\* getTeamUpcomingFixtures call c comes to hold the strengths map in this step.
GetsStrengths(c) ==
  call'[c].kind = "fixtures" /\ call[c].strengths # "value" /\ call'[c].strengths = "value"

\* C26: a getTeamUpcomingFixtures call that finds fixturesCache unset fetches the
\* fixture list, and one that reaches the bootstrap lookup with bootstrapCache
\* unset fetches the bootstrap data, whatever fetches other calls have in flight;
\* whereas, however many calls are fetching, at most one execution of
\* _calculateTeamStrengths is in progress.
C26_SecondaryCachesNotSingleFlight ==
  /\ [][\A c \in Calls :
          EntersFixtures(c) /\ IsNull(fixturesCache) => call'[c].pc = "fixtures"]_vars
  /\ [][\A c \in Calls :
          GetsStrengths(c) /\ IsNull(bootstrapCache) => call'[c].pc = "bootstrap"]_vars
  /\ [](Cardinality({c \in Calls : call[c].pc \in {"fixtures", "bootstrap", "strengths"}}) >= 2
          => Cardinality(InProgress) <= 1)

C26_TwoFixtureFetchesInFlight ==
  \E c1, c2 \in Calls :
    /\ c1 # c2
    /\ call[c1].pc = "fixtures" /\ call[c2].pc = "fixtures"
    /\ IsNull(fixturesCache)

\* The entries of `upcoming` whose opponent is in both the strengths map and the
\* bootstrap team list of call c.
ResolvedEntries(c) ==
  {j \in 1..Len(call[c].upcoming) :
     /\ call[c].upcoming[j].opponentTeamId \in call[c].strengthIds
     /\ call[c].upcoming[j].opponentTeamId \in call[c].teamIds}

\* C27: the fixtures handed to the scorer are cut to `count` before scoring; the
\* result holds one rating per handed fixture whose opponent is in the strengths
\* map and in the team list, and nothing else: no fixture beyond the first
\* `count` is rated in place of a skipped one.
C27_NoBackfill ==
  \A c \in Calls :
    ScoredCall(c) =>
      /\ Len(call[c].upcoming) <= call[c].count
      /\ Len(call[c].ratings) = Cardinality(ResolvedEntries(c))
      /\ \A r \in 1..Len(call[c].ratings) :
           \E j \in ResolvedEntries(c) : Entry(call[c].ratings[r]) = Entry(call[c].upcoming[j])

C27_SkippedNotReplaced ==
  \E c \in Calls :
    /\ ScoredCall(c)
    /\ Cardinality(Eligible(Get(call[c].allFixtures), call[c].teamId)) > call[c].count
    /\ Len(call[c].upcoming) = call[c].count
    /\ Len(call[c].ratings) >= 1
    /\ Len(call[c].ratings) < call[c].count
    /\ call[c].strengthIds # {}

\* C28: when the team has an unfinished fixture without a gameweek, the fixtures
\* selected (for count >= 1) begin with one, every fixture without a gameweek
\* comes before every fixture with one, and a selected one whose opponent resolves
\* is rated, with gameweek null.
C28_NullEventFirst ==
  \A c \in Calls :
    ~IsNull(call[c].allFixtures) =>
      LET all == Get(call[c].allFixtures)
          u == call[c].upcoming
      IN /\ (\E i \in Eligible(all, call[c].teamId) : all[i].event = NullEvent)
              /\ call[c].count >= 1
              => Len(u) >= 1 /\ u[1].gameweek = NullEvent
         /\ \A i, j \in 1..Len(u) :
              i < j /\ u[j].gameweek = NullEvent => u[i].gameweek = NullEvent
         /\ ScoredCall(c) =>
              \A j \in ResolvedEntries(c) :
                u[j].gameweek = NullEvent =>
                  \E r \in 1..Len(call[c].ratings) :
                    /\ call[c].ratings[r].gameweek = NullEvent
                    /\ Entry(call[c].ratings[r]) = Entry(u[j])

C28_NullGameweekRated ==
  \E c \in Calls :
    /\ ScoredCall(c)
    /\ Len(call[c].upcoming) = call[c].count
    /\ Len(call[c].ratings) >= 2
    /\ call[c].ratings[1].gameweek = NullEvent
    /\ call[c].ratings[2].gameweek >= 1

\* C29: once fixturesCache is set it stays set, and a getTeamUpcomingFixtures call
\* that starts with it set fetches nothing; a failed fetch leaves fixturesCache as
\* it was and the failing call returns []; a call that starts with it unset fetches.
C29_FixtureListMemoized ==
  /\ [][~IsNull(fixturesCache) => ~IsNull(fixturesCache')]_vars
  /\ [][\A c \in Calls :
          EntersFixtures(c) => (call'[c].pc = "fixtures" <=> IsNull(fixturesCache))]_vars
  /\ [][\A c \in Calls :
          call[c].pc = "fixtures" /\ call'[c].caught = "fixtures"
            => /\ fixturesCache' = fixturesCache
               /\ call'[c].pc = "done" /\ call'[c].outcome = "value"
               /\ call'[c].ratings = << >>]_vars

C29_FetchedAgainAfterFailure ==
  \E c1, c2 \in Calls :
    /\ c1 < c2
    /\ call[c1].caught = "fixtures" /\ call[c1].pc = "done"
    /\ call[c2].kind = "fixtures" /\ call[c2].caught = "no"
    /\ ~IsNull(call[c2].allFixtures)
    /\ fixturesCache = call[c2].allFixtures

\* The runs of the page started so far.
Runs == 1..Len(page.runs)
\* Run r issues the getTeamUpcomingFixtures call for team t in this step.
Issues(r, t) ==
  /\ r \in 1..Len(page'.runs)
  /\ t \in page'.runs[r].inflight
  /\ r \in Runs => t \notin page.runs[r].inflight

\* C25: a run never has more than batchSize calls in flight, and it issues a call
\* only when none of its calls is in flight, every team before the new batch has
\* its result, and it was awaiting either calculateTeamStrengths (first batch) or
\* the pause that follows a batch.
C25_BatchesOfThree ==
  /\ [](\A r \in Runs : Cardinality(page.runs[r].inflight) <= batchSize)
  /\ [][\A r \in 1..MaxRuns, t \in 1..NumTeams :
          Issues(r, t) =>
            /\ r \in Runs
            /\ page.runs[r].inflight = {}
            /\ page.runs[r].pc \in {"strengths", "pause"}
            /\ page.runs[r].pc = "pause" =>
                 /\ page'.runs[r].i = page.runs[r].i + batchSize
                 /\ \A j \in 1..page'.runs[r].i :
                      ~page.runs[r].fixturesMap[PageTeams[j]].loading]_vars

C25_SecondBatchInFlight ==
  \E r \in Runs :
    /\ page.runs[r].pc = "batch"
    /\ page.runs[r].i = batchSize
    /\ page.runs[r].inflight # {}
    /\ \A j \in 1..batchSize : ~page.runs[r].fixturesMap[PageTeams[j]].loading

\* C30: a change of maxFixtures replaces the pending timer and leaves every run
\* as it is; whenever teamFixtures is written, it becomes the map of one of the
\* runs, whose loaded entries were all fetched with that run's maxFixtures.
C30_RunsNotCancelled ==
  /\ [][page'.maxFixtures # page.maxFixtures
          => page'.runs = page.runs /\ page'.timer = page'.maxFixtures]_vars
  /\ [][page'.teamFixtures # page.teamFixtures
          => \E r \in 1..Len(page'.runs) :
               /\ page'.teamFixtures = page'.runs[r].fixturesMap
               /\ \A t \in DOMAIN page'.teamFixtures :
                    ~page'.teamFixtures[t].loading
                      => page'.teamFixtures[t].fixtures = page'.runs[r].maxFixtures]_vars

C30_OlderResultsShown ==
  /\ Len(page.runs) = 2
  /\ \A r \in Runs : page.runs[r].pc = "done"
  /\ page.timer = 0
  /\ page.runs[2].maxFixtures = page.maxFixtures
  /\ page.runs[1].maxFixtures # page.maxFixtures
  /\ page.teamFixtures = page.runs[1].fixturesMap
  /\ \A t \in DOMAIN page.teamFixtures :
       page.teamFixtures[t] = LoadedEntry(page.runs[1].maxFixtures)

====
